---------------------------- MODULE Spec2Model ----------------------------
(***************************************************************************)
(* A model of sjcl.keyexchange.srp (core/srp.js): the registry of known    *)
(* SRP groups with its lazy one-time materialization, and the SRP          *)
(* derivation functions built on bit arrays, bignums and the hash.         *)
(*                                                                         *)
(* Bit arrays are sequences of bits (most significant first), bignums are  *)
(* integers, strings are sequences of character codes.  The moduli of the  *)
(* catalog are replaced by one-byte safe primes (the real ones are 1024 to *)
(* 8192 bits long); the generators are the catalog's own.                  *)
(***************************************************************************)
EXTENDS Integers, Sequences, FiniteSets, TLC

\* ------------------------------------------------------------------ bounds
MaxPriv == 3          \* private values a and b range over 0..MaxPriv
MaxPadBits == 3       \* _pad is exercised on every bit pattern up to MaxPadBits + 33 bits
MaxLookups == 2       \* number of knownGroup calls followed in the sequential model
HashBits == 8         \* width of the modelled digest (SHA-1 has 160)
MaxProcs == 2         \* number of callers running knownGroup interleaved

\* ------------------------------------------------- collaborators: bitArray
WordBits == 32
ByteBits == 8

Bit == {0, 1}

\* F applied to the value of v, v being evaluated once
Eval(v, F(_)) == CHOOSE r \in {F(x) : x \in {v}} : TRUE

Min(a, b) == IF a < b THEN a ELSE b

Zeros(n) == [i \in 1..n |-> 0]

\* sjcl.bitArray.bitLength
bitLength(a) == Len(a)

\* number of 32-bit words of the array holding a (a.length)
wordLength(a) == (Len(a) + WordBits - 1) \div WordBits

\* sjcl.bitArray.concat: a fresh array, a1 followed by a2
concat(a1, a2) == a1 \o a2

\* sjcl.bitArray.bitSlice(a, bstart, bend): the bits bstart..bend-1 of a; a
\* zero or negative slice length is an empty slice, an end past the array is
\* the array's end
bitSlice(a, bstart, bend) ==
  IF bend - bstart <= 0 THEN << >>
  ELSE SubSeq(a, bstart + 1, Min(bend, Len(a)))

\* bitwise exclusive or of two bits (the ^ of makeM1, per bit)
Xor(x, y) == IF x = y THEN 0 ELSE 1

\* ------------------------------------------------------- collaborators: bn
RECURSIVE valueOf(_, _)
\* the number the first i bits of a sequence spell, big-endian
valueOf(bits, i) == IF i = 0 THEN 0 ELSE 2 * valueOf(bits, i - 1) + bits[i]

\* sjcl.bn.fromBits
fromBits(bits) == Eval(bits, LAMBDA b : valueOf(b, Len(b)))

\* the number of significant bits of n
NumBits(n) == IF n = 0 THEN 0 ELSE CHOOSE k \in 1..30 : 2 ^ (k - 1) <= n /\ n < 2 ^ k

\* the len low-order bits of n, most significant first
BitsOf(n, len) == [i \in 1..len |-> (n \div (2 ^ (len - i))) % 2]

\* sjcl.bn.prototype.bitLength: rounded up to whole bytes
bnBitLength(n) == ((NumBits(n) + ByteBits - 1) \div ByteBits) * ByteBits

\* sjcl.bn.prototype.toBits: big-endian, in whole bytes
toBits(n) == Eval(n, LAMBDA v : BitsOf(v, bnBitLength(v)))

\* sjcl.bn.prototype.mod: the residue in [0, N), also of a negative number
mod(n, N) == n % N

\* sjcl.bn.prototype.mulmod
mulmod(x, y, N) == mod(mod(x, N) * mod(y, N), N)

RECURSIVE squareAndMultiply(_, _, _)
\* b^e mod m by squaring
squareAndMultiply(b, e, m) ==
  IF e = 0 THEN mod(1, m)
  ELSE Eval(squareAndMultiply(b, e \div 2, m),
            LAMBDA half : IF e % 2 = 1 THEN mulmod(mulmod(half, half, m), b, m)
                          ELSE mulmod(half, half, m))

\* sjcl.bn.prototype.powermod
powermod(base, e, m) ==
  Eval(<<base, e, m>>, LAMBDA t : squareAndMultiply(t[1], t[2], t[3]))

\* ----------------------------------------------------- collaborator: hash
RECURSIVE fold(_, _)
\* a number below 2^HashBits that depends on each of the first i bits and on i
fold(bits, i) ==
  IF i = 0 THEN 1 ELSE (fold(bits, i - 1) * 3 + bits[i] + 1) % (2 ^ HashBits)

\* sjcl.hash.sha1.hash on a bit array: a digest of HashBits bits that depends
\* on every bit of the input and on its length
hash(bits) == Eval(bits, LAMBDA b : BitsOf(fold(b, Len(b)), HashBits))

\* sjcl.codec.utf8String.toBits, applied by hash() to a string argument: one
\* byte for each (ASCII) character
utf8ToBits(str) ==
  [i \in 1..(ByteBits * Len(str)) |->
     (str[((i - 1) \div ByteBits) + 1] \div (2 ^ (ByteBits - 1 - ((i - 1) % ByteBits)))) % 2]

hashString(str) == hash(utf8ToBits(str))

\* ------------------------------------------------------------ the catalog
Colon == 58

\* a decimal digit string, as the sequence of its digits
RECURSIVE toString(_)
\* Number.prototype.toString of a non-negative integer
toString(n) == IF n < 10 THEN <<n>> ELSE Append(toString(n \div 10), n % 10)

_knownGroupSizes == <<1024, 1536, 2048, 3072, 4096, 6144, 8192>>

Literal(hexDigits) == [form |-> "string", hex |-> hexDigits, num |-> 0]
Number(n) == [form |-> "number", hex |-> << >>, num |-> n]
BigNum(n) == [form |-> "object", hex |-> << >>, num |-> n]

\* _knownGroups as written: N a hexadecimal literal, g a small integer.  The
\* moduli are one-byte safe primes standing for the RFC 5054 primes.
_knownGroupsLiteral ==
  (toString(1024) :> [N |-> Literal(<<1, 7>>),   g |-> Number(2)]) @@
  (toString(1536) :> [N |-> Literal(<<2, 15>>),  g |-> Number(2)]) @@
  (toString(2048) :> [N |-> Literal(<<3, 11>>),  g |-> Number(2)]) @@
  (toString(3072) :> [N |-> Literal(<<5, 3>>),   g |-> Number(5)]) @@
  (toString(4096) :> [N |-> Literal(<<6, 11>>),  g |-> Number(5)]) @@
  (toString(6144) :> [N |-> Literal(<<10, 7>>),  g |-> Number(5)]) @@
  (toString(8192) :> [N |-> Literal(<<14, 3>>),  g |-> Number(19)])

RECURSIVE parseHex(_)
parseHex(digits) ==
  IF digits = << >> THEN 0
  ELSE 16 * parseHex(SubSeq(digits, 1, Len(digits) - 1)) + digits[Len(digits)]

\* new sjcl.bn(it): a hexadecimal string is parsed, a number is taken as it
\* is, a bignum is copied
newBn(it) ==
  CASE it.form = "string" -> BigNum(parseHex(it.hex))
    [] it.form = "number" -> BigNum(it.num)
    [] it.form = "object" -> BigNum(it.num)

\* the registry: the flag and the catalog
Registry(didInit, groups) == [didInit |-> didInit, groups |-> groups]

\* the position of a run of _initKnownGroups: the index i of the loop (from 1)
\* and the statement it is at
InitStart == [i |-> 1, at |-> IF Len(_knownGroupSizes) >= 1 THEN "N" ELSE "flag"]

\* _initKnownGroups with the flag set as soon as the first entry is touched
_initKnownGroupsStepFlagFirst(pos, reg) ==
  LET size == toString(_knownGroupSizes[pos.i])
  IN CASE pos.at = "N" ->
            [pos |-> [pos EXCEPT !.at = "g"],
             reg |-> [didInit |-> TRUE,
                      groups |-> [reg.groups EXCEPT ![size].N = newBn(reg.groups[size].N)]]]
       [] pos.at = "g" ->
            [pos |-> [i |-> pos.i + 1,
                      at |-> IF pos.i + 1 <= Len(_knownGroupSizes) THEN "N" ELSE "flag"],
             reg |-> [reg EXCEPT !.groups[size].g = newBn(reg.groups[size].g)]]
       [] pos.at = "flag" ->
            [pos |-> [pos EXCEPT !.at = "end"], reg |-> [reg EXCEPT !.didInit = TRUE]]

\* _initKnownGroups without its last statement: the flag is never set
_initKnownGroupsStepNoFlag(pos, reg) ==
  LET size == toString(_knownGroupSizes[pos.i])
  IN CASE pos.at = "N" ->
            [pos |-> [pos EXCEPT !.at = "g"],
             reg |-> [reg EXCEPT !.groups[size].N = newBn(reg.groups[size].N)]]
       [] pos.at = "g" ->
            [pos |-> [i |-> pos.i + 1,
                      at |-> IF pos.i + 1 <= Len(_knownGroupSizes) THEN "N" ELSE "flag"],
             reg |-> [reg EXCEPT !.groups[size].g = newBn(reg.groups[size].g)]]
       [] pos.at = "flag" ->
            [pos |-> [pos EXCEPT !.at = "end"], reg |-> reg]

\* _initKnownGroups reading every N as a hexadecimal string, also an N that
\* is a bignum already
_initKnownGroupsStepReparse(pos, reg) ==
  LET size == toString(_knownGroupSizes[pos.i])
  IN CASE pos.at = "N" ->
            [pos |-> [pos EXCEPT !.at = "g"],
             reg |-> [reg EXCEPT !.groups[size].N = BigNum(parseHex(reg.groups[size].N.hex))]]
       [] pos.at = "g" ->
            [pos |-> [i |-> pos.i + 1,
                      at |-> IF pos.i + 1 <= Len(_knownGroupSizes) THEN "N" ELSE "flag"],
             reg |-> [reg EXCEPT !.groups[size].g = newBn(reg.groups[size].g)]]
       [] pos.at = "flag" ->
            [pos |-> [pos EXCEPT !.at = "end"], reg |-> [reg EXCEPT !.didInit = TRUE]]

\* one statement of _initKnownGroups at position pos on registry reg: the
\* position and the registry after it.  At "N" line 163, at "g" line 164 and
\* the step of the loop, at "flag" line 166.
_initKnownGroupsStep(pos, reg) ==
  LET size == toString(_knownGroupSizes[pos.i])
  IN CASE pos.at = "N" ->
            [pos |-> [pos EXCEPT !.at = "g"],
             reg |-> [reg EXCEPT !.groups[size].N = newBn(reg.groups[size].N)]]
       [] pos.at = "g" ->
            [pos |-> [i |-> pos.i + 1,
                      at |-> IF pos.i + 1 <= Len(_knownGroupSizes) THEN "N" ELSE "flag"],
             reg |-> [reg EXCEPT !.groups[size].g = newBn(reg.groups[size].g)]]
       [] pos.at = "flag" ->
            [pos |-> [pos EXCEPT !.at = "end"], reg |-> [reg EXCEPT !.didInit = TRUE]]

RECURSIVE initFrom(_, _)
initFrom(pos, reg) ==
  IF pos.at = "end" THEN reg
  ELSE Eval(_initKnownGroupsStep(pos, reg), LAMBDA r : initFrom(r.pos, r.reg))

\* _initKnownGroups run from its first statement to its last without
\* interruption: the registry it leaves
_initKnownGroups(reg) == initFrom(InitStart, reg)

\* the property name knownGroup reads: i itself when it is a string, else
\* i.toString()
groupKey(i) == IF i.type = "string" THEN i.str ELSE toString(i.num)

\* knownGroup(i) run without interruption on registry reg: the registry it
\* leaves, how the call ended, whether _knownGroups[i] is defined, and whether
\* the call ran _initKnownGroups
knownGroup(i, reg) ==
  Eval(IF ~reg.didInit THEN _initKnownGroups(reg) ELSE reg,
       LAMBDA reg1 : [reg |-> reg1,
                      status |-> "returned",
                      defined |-> groupKey(i) \in DOMAIN reg1.groups,
                      key |-> groupKey(i),
                      ranInit |-> ~reg.didInit])

\* ---------------------------------------------------------- the SRP math
\* a Group as the math functions read it: the numbers of N and g
GroupOf(entry) == [N |-> entry.N.num, g |-> entry.g.num]

_makeX(I, P, s) ==
  LET inner == hashString(I \o <<Colon>> \o P)
  IN hash(concat(s, inner))

makeVerifier(I, P, s, group) ==
  LET x == fromBits(_makeX(I, P, s))
  IN toBits(powermod(group.g, x, group.N))

\* _pad with the zeros put after p instead of before it
_padRight(p, N) ==
  LET pad0 == Zeros(WordBits * wordLength(N))
      pad1 == bitSlice(pad0, 0, bitLength(N) - bitLength(p))
  IN concat(p, pad1)

\* lines 35-45
_pad(p, N) ==
  LET pad0 == Zeros(WordBits * wordLength(N))
      pad1 == bitSlice(pad0, 0, bitLength(N) - bitLength(p))
  IN concat(pad1, p)

_makeK(group) ==
  LET N == toBits(group.N)
      g == toBits(group.g)
  IN hash(concat(N, _pad(g, N)))

_makeU(A, B, group) ==
  LET N == toBits(group.N)
  IN hash(concat(_pad(A, N), _pad(B, N)))

makeA(a, group) == toBits(powermod(group.g, fromBits(a), group.N))

\* the base with the subtraction left as it comes, not reduced modulo N
clientKeyBaseNoMod(I, P, s, B, group) ==
  LET x == fromBits(_makeX(I, P, s))
      k == fromBits(_makeK(group))
      key1 == powermod(group.g, x, group.N)
      key2 == mulmod(key1, k, group.N)
  IN fromBits(B) - key2

\* lines 102-104 of makeClientKey: the base of the final exponentiation
clientKeyBase(I, P, s, B, group) ==
  LET x == fromBits(_makeX(I, P, s))
      k == fromBits(_makeK(group))
      key1 == powermod(group.g, x, group.N)
      key2 == mulmod(key1, k, group.N)
  IN mod(fromBits(B) - key2, group.N)

\* the exponent with u added to a, not u*x
clientKeyPowerNoX(I, P, s, a, A, B, group) ==
  LET u == fromBits(_makeU(A, B, group))
  IN fromBits(a) + u

\* lines 106-107 of makeClientKey: the exponent
clientKeyPower(I, P, s, a, A, B, group) ==
  LET x == fromBits(_makeX(I, P, s))
      u == fromBits(_makeU(A, B, group))
  IN fromBits(a) + u * x

\* makeClientKey with a check of its own that gives up on a zero base
makeClientKeyAbortOnZero(I, P, s, a, A, B, group) ==
  LET key == clientKeyBase(I, P, s, B, group)
      power == clientKeyPower(I, P, s, a, A, B, group)
  IN IF key = 0
     THEN [status |-> "ProtocolAbort", ret |-> << >>]
     ELSE [status |-> "returned", ret |-> toBits(powermod(key, power, group.N))]

\* lines 97-110
makeClientKey(I, P, s, a, A, B, group) ==
  LET key == clientKeyBase(I, P, s, B, group)
      power == clientKeyPower(I, P, s, a, A, B, group)
  IN [status |-> "returned", ret |-> toBits(powermod(key, power, group.N))]

\* makeM1 works on the arrays it holds: the caller's s, A, B and K, and its own
\* hN, hg and out.  These are the arrays after lines 116-117.
makeM1Arrays(s, A, B, K, group) ==
  [s |-> s, A |-> A, B |-> B, K |-> K,
   hN |-> hash(toBits(group.N)), hg |-> hash(toBits(group.g)), out |-> << >>]

\* the loop of lines 119-121, hN[i] = hN[i] ^ hg[i], writing in place
makeM1LoopIntoA(c) ==
  [c EXCEPT !.hN = [i \in 1..Len(c.hN) |-> Xor(c.hN[i], c.hg[i])],
            !.A = [i \in 1..Len(c.hN) |-> Xor(c.hN[i], c.hg[i])]]

makeM1Loop(c) == [c EXCEPT !.hN = [i \in 1..Len(c.hN) |-> Xor(c.hN[i], c.hg[i])]]

\* lines 123-128: out is built from fresh arrays and hashed
makeM1Out(c, I) ==
  [c EXCEPT !.out =
     hash(concat(concat(concat(concat(concat(c.hN, hashString(I)), c.s), c.A), c.B), c.K))]

\* the arrays makeM1 leaves
makeM1Cells(I, s, A, B, K, group) ==
  Eval(makeM1Arrays(s, A, B, K, group),
       LAMBDA c0 : Eval(makeM1Loop(c0), LAMBDA c1 : makeM1Out(c1, I)))

makeM1(I, s, A, B, K, group) == makeM1Cells(I, s, A, B, K, group).out

makeM2(A, M1, K) ==
  LET out1 == concat(A, M1)
      out2 == concat(out1, K)
  IN hash(out2)

\* ------------------------------------------------------------ the inputs
\* credentials and proof inputs: identity, password, salt, a session key K
\* and a proof M1 as a caller may hold them
Scenarios ==
  {[I |-> <<97>>, P |-> <<112>>, s |-> BitsOf(7, ByteBits),
    K |-> BitsOf(9, ByteBits), M1 |-> hash(<<1, 1>>)],
   [I |-> <<98, 111>>, P |-> <<49, 50>>, s |-> BitsOf(200, 2 * ByteBits),
    K |-> << >>, M1 |-> hash(<<0>>)],
   [I |-> <<97>>, P |-> <<49, 50>>, s |-> << >>,
    K |-> BitsOf(255, ByteBits), M1 |-> BitsOf(5, 3)]}

\* the groups the exchanges run over: one for each generator of the catalog
ExchangeSizes == {1024, 3072, 8192}

\* how the B given to the client is chosen: sent by a server with private
\* value b, the value that makes the base zero, or a small number
BChoices ==
  {[how |-> "server", n |-> b] : b \in 0..MaxPriv}
  \cup {[how |-> "zeroBase", n |-> 0]}
  \cup {[how |-> "small", n |-> 0]}

Sizes == {_knownGroupSizes[j] : j \in 1..Len(_knownGroupSizes)}

\* the arguments of knownGroup: the cataloged sizes and some others, as
\* numbers and as strings
NumberArg(n) == [type |-> "number", num |-> n, str |-> << >>]
StringArg(str) == [type |-> "string", num |-> 0, str |-> str]

LookupArgs ==
  {NumberArg(n) : n \in Sizes \cup {9999, 512, 0}}
  \cup {StringArg(str) : str \in {toString(2048), toString(9999), << >>}}

RECURSIVE BitStrings(_)
\* every bit array of exactly n bits
BitStrings(n) ==
  IF n = 0 THEN {<< >>}
  ELSE {Append(b, x) : b \in BitStrings(n - 1), x \in Bit}

\* the arguments _pad is exercised on: every bit array of up to MaxPadBits
\* bits, and arrays around and beyond one word
PadArgs ==
  UNION {BitStrings(n) : n \in 0..MaxPadBits}
  \cup {[i \in 1..n |-> (i * m) % 2] :
          n \in (WordBits - 1)..(WordBits + MaxPadBits + 1), m \in {0, 1}}

NoInput ==
  [kind |-> "registry", size |-> 1024, I |-> << >>, P |-> << >>, s |-> << >>,
   K |-> << >>, M1 |-> << >>, a |-> << >>, genuineA |-> TRUE,
   B |-> [how |-> "small", n |-> 0], p |-> << >>, N |-> << >>]

\* what one caller holds through a run: nothing but the registry, the two
\* arguments of a _pad call, or the inputs of an SRP exchange
Inputs ==
  {NoInput}
  \cup {[NoInput EXCEPT !.kind = "pad", !.p = p, !.N = N] : p \in PadArgs, N \in PadArgs}
  \cup {[NoInput EXCEPT !.kind = "srp", !.size = size, !.I = sc.I, !.P = sc.P,
                        !.s = sc.s, !.K = sc.K, !.M1 = sc.M1,
                        !.a = BitsOf(a, ByteBits), !.genuineA = gen, !.B = b] :
          size \in ExchangeSizes, sc \in Scenarios, a \in 0..MaxPriv, gen \in BOOLEAN,
          b \in BChoices}

\* what an emulated server sends for its private value b:
\* B = (k*v + g^b) mod N
ServerB(I, P, s, b, group) ==
  LET k == fromBits(_makeK(group))
      v == fromBits(makeVerifier(I, P, s, group))
  IN toBits(mod(k * v + powermod(group.g, b, group.N), group.N))

\* the B that makes the base of makeClientKey zero: k*v mod N
ZeroBaseB(I, P, s, group) ==
  LET k == fromBits(_makeK(group))
      v == fromBits(makeVerifier(I, P, s, group))
  IN BitsOf(mulmod(k, v, group.N), ByteBits)

\* the A and the B of an exchange with inputs in over group
AOf(in, group) == IF in.genuineA THEN makeA(in.a, group) ELSE BitsOf(1, ByteBits)

BOf(in, group) ==
  CASE in.B.how = "server" -> ServerB(in.I, in.P, in.s, in.B.n, group)
    [] in.B.how = "zeroBase" -> ZeroBaseB(in.I, in.P, in.s, group)
    [] in.B.how = "small" -> BitsOf(in.B.n, ByteBits)

NoArgs ==
  [s |-> << >>, a |-> << >>, A |-> << >>, B |-> << >>, K |-> << >>, M1 |-> << >>,
   p |-> << >>, N |-> << >>]

NoCall ==
  [op |-> "none", status |-> "none", defined |-> FALSE, key |-> << >>,
   ranInit |-> FALSE, args |-> NoArgs, after |-> NoArgs, ret |-> << >>]

Procs == 1..MaxProcs

\* -------------------------------------------------------------- the state
VARIABLES
  _didInitKnownGroups,  \* the flag
  _knownGroups,         \* the catalog: size string -> [N, g]
  in,                   \* what the caller holds: the inputs of its calls
  call,                 \* the last call made to completion: arguments and outcome
  lookups,              \* the number of knownGroup calls made to completion
  initRuns,             \* the number of runs of _initKnownGroups among them
  pc,                   \* interleaved calls: where each caller is in knownGroup
  pos,                  \* interleaved calls: where each caller is in _initKnownGroups
  arg,                  \* interleaved calls: each caller's argument i
  res                   \* interleaved calls: what each caller's call returned

vars == <<_didInitKnownGroups, _knownGroups, in, call, lookups, initRuns, pc, pos, arg, res>>
registry == <<_didInitKnownGroups, _knownGroups>>
concVars == <<pc, pos, arg, res>>

NoRes == [status |-> "none", defined |-> FALSE, key |-> << >>, ranInit |-> FALSE]

InitRegistry ==
  /\ _didInitKnownGroups = FALSE
  /\ _knownGroups = _knownGroupsLiteral

InitIdle ==
  /\ pc = [p \in Procs |-> "idle"]
  /\ pos = [p \in Procs |-> InitStart]
  /\ arg = [p \in Procs |-> NumberArg(0)]
  /\ res = [p \in Procs |-> NoRes]

Init ==
  /\ InitRegistry
  /\ in \in Inputs
  /\ call = NoCall
  /\ lookups = 0
  /\ initRuns = 0
  /\ InitIdle

\* ------------------------------------- the calls, each run to completion
\* the sizes a caller looks up: the size of its exchange's group, or any
\* argument when it holds nothing but the registry
Lookups == IF in.kind = "registry" THEN LookupArgs ELSE {NumberArg(in.size)}

KnownGroup(i) ==
  /\ lookups < MaxLookups
  /\ \E r \in {knownGroup(i, Registry(_didInitKnownGroups, _knownGroups))} :
        /\ _didInitKnownGroups' = r.reg.didInit
        /\ _knownGroups' = r.reg.groups
        /\ call' = [NoCall EXCEPT !.op = "knownGroup", !.status = r.status,
                                  !.defined = r.defined, !.key = r.key,
                                  !.ranInit = r.ranInit]
        /\ initRuns' = IF r.ranInit THEN initRuns + 1 ELSE initRuns
  /\ lookups' = lookups + 1
  /\ UNCHANGED <<in, concVars>>

\* the Group the caller of an exchange holds, once knownGroup returned it
Held == in.kind = "srp" /\ lookups > 0
group == GroupOf(_knownGroups[toString(in.size)])

Returned(op, args, after, ret) ==
  [NoCall EXCEPT !.op = op, !.status = "returned", !.args = args, !.after = after,
                 !.ret = ret]

MakeVerifier ==
  /\ Held
  /\ \E args \in {[NoArgs EXCEPT !.s = in.s]} :
       call' = Returned("makeVerifier", args, args, makeVerifier(in.I, in.P, args.s, group))
  /\ UNCHANGED <<registry, in, lookups, initRuns, concVars>>

Pad ==
  /\ in.kind = "pad"
  /\ \E args \in {[NoArgs EXCEPT !.p = in.p, !.N = in.N]} :
       call' = Returned("_pad", args, args, _pad(args.p, args.N))
  /\ UNCHANGED <<registry, in, lookups, initRuns, concVars>>

MakeK ==
  /\ Held
  /\ call' = Returned("_makeK", NoArgs, NoArgs, _makeK(group))
  /\ UNCHANGED <<registry, in, lookups, initRuns, concVars>>

MakeX ==
  /\ in.kind = "srp"
  /\ \E args \in {[NoArgs EXCEPT !.s = in.s]} :
       call' = Returned("_makeX", args, args, _makeX(in.I, in.P, args.s))
  /\ UNCHANGED <<registry, in, lookups, initRuns, concVars>>

MakeU ==
  /\ Held
  /\ \E args \in {[NoArgs EXCEPT !.A = AOf(in, group), !.B = BOf(in, group)]} :
       call' = Returned("_makeU", args, args, _makeU(args.A, args.B, group))
  /\ UNCHANGED <<registry, in, lookups, initRuns, concVars>>

MakeA ==
  /\ Held
  /\ \E args \in {[NoArgs EXCEPT !.a = in.a]} :
       call' = Returned("makeA", args, args, makeA(args.a, group))
  /\ UNCHANGED <<registry, in, lookups, initRuns, concVars>>

MakeClientKey ==
  /\ Held
  /\ \E args \in {[NoArgs EXCEPT !.s = in.s, !.a = in.a, !.A = AOf(in, group),
                                 !.B = BOf(in, group)]} :
       \E r \in {makeClientKey(in.I, in.P, args.s, args.a, args.A, args.B, group)} :
          call' = [Returned("makeClientKey", args, args, r.ret) EXCEPT !.status = r.status]
  /\ UNCHANGED <<registry, in, lookups, initRuns, concVars>>

MakeM1 ==
  /\ Held
  /\ \E args \in {[NoArgs EXCEPT !.s = in.s, !.A = AOf(in, group), !.B = BOf(in, group),
                                 !.K = in.K]} :
       \E c \in {makeM1Cells(in.I, args.s, args.A, args.B, args.K, group)} :
          call' = Returned("makeM1", args,
                           [args EXCEPT !.s = c.s, !.A = c.A, !.B = c.B, !.K = c.K], c.out)
  /\ UNCHANGED <<registry, in, lookups, initRuns, concVars>>

MakeM2 ==
  /\ in.kind = "srp"
  /\ \E args \in {[NoArgs EXCEPT !.A = in.a, !.M1 = in.M1, !.K = in.K]} :
       call' = Returned("makeM2", args, args, makeM2(args.A, args.M1, args.K))
  /\ UNCHANGED <<registry, in, lookups, initRuns, concVars>>

Next ==
  \/ \E i \in Lookups : KnownGroup(i)
  \/ MakeVerifier
  \/ Pad
  \/ MakeK
  \/ MakeX
  \/ MakeU
  \/ MakeA
  \/ MakeClientKey
  \/ MakeM1
  \/ MakeM2

Spec == Init /\ [][Next]_vars

\* --------------------- knownGroup called by several callers, interleaved
\* Each caller runs knownGroup one statement at a time: the test of the flag
\* (line 149), the statements of _initKnownGroups (lines 163, 164 and 166),
\* the read of _knownGroups[i] (line 150).
ConcArgs == {NumberArg(1024), NumberArg(8192), NumberArg(9999)}

InitConc ==
  /\ InitRegistry
  /\ in = NoInput
  /\ call = NoCall
  /\ lookups = 0
  /\ initRuns = 0
  /\ InitIdle

Enter(p, i) ==
  /\ pc[p] \in {"idle", "done"}
  /\ pc' = [pc EXCEPT ![p] = "L149"]
  /\ arg' = [arg EXCEPT ![p] = i]
  /\ res' = [res EXCEPT ![p] = NoRes]
  /\ UNCHANGED <<registry, in, call, lookups, initRuns, pos>>

TestFlag(p) ==
  /\ pc[p] = "L149"
  /\ IF ~_didInitKnownGroups
     THEN /\ pc' = [pc EXCEPT ![p] = "init"]
          /\ pos' = [pos EXCEPT ![p] = InitStart]
          /\ res' = [res EXCEPT ![p].ranInit = TRUE]
     ELSE /\ pc' = [pc EXCEPT ![p] = "L150"]
          /\ UNCHANGED <<pos, res>>
  /\ UNCHANGED <<registry, in, call, lookups, initRuns, arg>>

InitStep(p) ==
  /\ pc[p] = "init"
  /\ \E r \in {_initKnownGroupsStep(pos[p], Registry(_didInitKnownGroups, _knownGroups))} :
        /\ _didInitKnownGroups' = r.reg.didInit
        /\ _knownGroups' = r.reg.groups
        /\ pos' = [pos EXCEPT ![p] = r.pos]
        /\ pc' = [pc EXCEPT ![p] = IF r.pos.at = "end" THEN "L150" ELSE "init"]
  /\ UNCHANGED <<in, call, lookups, initRuns, arg, res>>

ReadGroup(p) ==
  /\ pc[p] = "L150"
  /\ pc' = [pc EXCEPT ![p] = "done"]
  /\ res' = [res EXCEPT ![p].status = "returned",
                        ![p].defined = groupKey(arg[p]) \in DOMAIN _knownGroups,
                        ![p].key = groupKey(arg[p])]
  /\ UNCHANGED <<registry, in, call, lookups, initRuns, pos, arg>>

NextConc ==
  \/ \E p \in Procs, i \in ConcArgs : Enter(p, i)
  \/ \E p \in Procs : TestFlag(p)
  \/ \E p \in Procs : InitStep(p)
  \/ \E p \in Procs : ReadGroup(p)

SpecConc == InitConc /\ [][NextConc]_vars

\* ------------------------------------------------------------- properties
CatalogKeys == {toString(n) : n \in Sizes}

\* an entry's N and g are bignums with the numbers the catalog spells
MaterializedEntry(groups, key) ==
  /\ groups[key].N = BigNum(parseHex(_knownGroupsLiteral[key].N.hex))
  /\ groups[key].g = BigNum(_knownGroupsLiteral[key].g.num)

Materialized(groups) == \A key \in CatalogKeys : MaterializedEntry(groups, key)

\* C1: knownGroup of a size that is not cataloged fails with UnknownGroup; it
\* never returns to its caller
C1_UnknownGroupFails ==
  (call.op = "knownGroup" /\ call.key \notin CatalogKeys) => call.status = "UnknownGroup"

\* C2: the flag goes from false to true once, at the first knownGroup call,
\* which materializes all seven entries; every later call runs no
\* materialization and leaves the flag and the catalog as they are
C2_FlagOnce ==
  [][/\ _didInitKnownGroups => _didInitKnownGroups'
     /\ (lookups = 0) <=> ~_didInitKnownGroups
     /\ initRuns' <= 1
     /\ lookups' = lookups + 1 =>
          /\ _didInitKnownGroups'
          /\ Materialized(_knownGroups')
          /\ lookups = 0 => initRuns' = initRuns + 1 /\ call'.ranInit
          /\ lookups > 0 => /\ initRuns' = initRuns
                            /\ ~call'.ranInit
                            /\ UNCHANGED <<_didInitKnownGroups, _knownGroups>>]_vars

C2_Witness ==
  /\ lookups >= 2
  /\ initRuns = 1
  /\ call.op = "knownGroup"
  /\ ~call.ranInit
  /\ Materialized(_knownGroups)

\* C3: under any interleaving of knownGroup calls, no call returns a Group
\* while an entry of the catalog still has its N or g in literal form
C3_NoPartialCatalogObserved ==
  \A p \in Procs :
     (pc[p] = "done" /\ res[p].defined) => Materialized(_knownGroups)

C3_Witness ==
  \E p, q \in Procs :
     /\ pc[p] = "done" /\ res[p].defined /\ res[p].ranInit
     /\ pc[q] = "init" /\ pos[q].i < Len(_knownGroupSizes)

\* C4: with v = makeVerifier(I,P,s), A = makeA(a), k = _makeK, B = (k*v + g^b)
\* mod N and u = _makeU(A,B), makeClientKey returns (A * v^u)^b mod N
ServerKey(I, P, s, A, B, b, grp) ==
  LET v == fromBits(makeVerifier(I, P, s, grp))
      u == fromBits(_makeU(A, B, grp))
  IN powermod(mulmod(fromBits(A), powermod(v, u, grp.N), grp.N), b, grp.N)

C4_ClientKeyIsServerKey ==
  (call.op = "makeClientKey" /\ in.genuineA /\ in.B.how = "server") =>
     /\ call.args.A = makeA(in.a, group)
     /\ call.args.B = ServerB(in.I, in.P, in.s, in.B.n, group)
     /\ call.ret = toBits(ServerKey(in.I, in.P, in.s, call.args.A, call.args.B, in.B.n, group))

C4_Witness ==
  /\ call.op = "makeClientKey" /\ in.genuineA /\ in.B.how = "server"
  /\ in.B.n > 1
  /\ fromBits(in.a) > 1
  /\ fromBits(call.ret) > 1

\* C5: when p is no longer than N, _pad(p, N) is as long as N, begins with
\* bitLength(N) - bitLength(p) zero bits and ends with p
C5_PadToModulus ==
  (call.op = "_pad" /\ bitLength(call.args.p) <= bitLength(call.args.N)) =>
     LET d == bitLength(call.args.N) - bitLength(call.args.p)
     IN /\ bitLength(call.ret) = bitLength(call.args.N)
        /\ \A j \in 1..d : call.ret[j] = 0
        /\ \A j \in 1..bitLength(call.args.p) : call.ret[d + j] = call.args.p[j]

C5_Witness ==
  /\ call.op = "_pad"
  /\ bitLength(call.args.p) > 0
  /\ bitLength(call.args.p) < bitLength(call.args.N)
  /\ bitLength(call.args.N) > WordBits
  /\ \E j \in 1..bitLength(call.args.p) : call.args.p[j] = 1

\* C6: the base (B - k*(g^x mod N)) mod N of makeClientKey lies in [0, N),
\* also when B is smaller than k*(g^x mod N) mod N
C6_BaseInRange ==
  call.op = "makeClientKey" =>
     clientKeyBase(in.I, in.P, call.args.s, call.args.B, group) \in 0..(group.N - 1)

C6_Witness ==
  /\ call.op = "makeClientKey"
  /\ fromBits(call.args.B) <
       mulmod(fromBits(makeVerifier(in.I, in.P, in.s, group)), fromBits(_makeK(group)), group.N)

\* C7: a call of makeVerifier, makeA, makeClientKey, makeM1, makeM2, _makeK,
\* _makeU, _makeX or _pad leaves the flag, the catalog and the bit arrays it
\* was given as they were
C7_MathCallsChangeNothing ==
  [][lookups' = lookups =>
       /\ UNCHANGED <<_didInitKnownGroups, _knownGroups>>
       /\ call'.after = call'.args]_vars

C7_Witness ==
  /\ call.op = "makeM1"
  /\ call.args.A # << >> /\ call.args.B # << >> /\ call.args.K # << >>
  /\ call.after = call.args
  /\ lookups >= 2

\* C9: when the base of makeClientKey is zero the call still returns a key,
\* the power of zero
C9_ZeroBaseReturns ==
  (call.op = "makeClientKey"
     /\ clientKeyBase(in.I, in.P, call.args.s, call.args.B, group) = 0) =>
     /\ call.status = "returned"
     /\ fromBits(call.ret) =
          IF clientKeyPower(in.I, in.P, call.args.s, call.args.a, call.args.A,
                            call.args.B, group) = 0
          THEN 1 ELSE 0

C9_Witness ==
  /\ call.op = "makeClientKey"
  /\ in.B.how = "zeroBase"
  /\ clientKeyBase(in.I, in.P, call.args.s, call.args.B, group) = 0
  /\ call.status = "returned"

\* C10: running _initKnownGroups on a catalog that is already materialized, in
\* full or in part, gives every N and g the numbers of a single run, and the
\* flag ends true
C10_InitIdempotent ==
  /\ \A key \in CatalogKeys :
        /\ _knownGroups[key].N.form = "object" =>
              _knownGroups[key].N = BigNum(parseHex(_knownGroupsLiteral[key].N.hex))
        /\ _knownGroups[key].g.form = "object" =>
              _knownGroups[key].g = BigNum(_knownGroupsLiteral[key].g.num)
  /\ \A p \in Procs :
        (pc[p] \in {"L150", "done"} /\ res[p].ranInit) =>
           _didInitKnownGroups /\ Materialized(_knownGroups)

C10_Witness ==
  /\ \A p \in Procs : pc[p] = "done" /\ res[p].ranInit
  /\ _didInitKnownGroups
  /\ Materialized(_knownGroups)

=============================================================================
